---- MODULE Spec2Model ----
(***************************************************************************)
(* Model of geng-tas (src/lib.rs): the Tas<T> controller that wraps a game *)
(* (the "subject") and gives it save states, slow motion and input         *)
(* record / replay.                                                        *)
(*                                                                         *)
(* Conventions                                                             *)
(*  - Option<X> is a sequence of length 0 (None) or 1 (Some(x)).           *)
(*  - An event is a pair <<kind, argument>>.                               *)
(*  - time_scale and acc_delta_time are f64 values below 16.0, kept as the  *)
(*    pair <<hi, lo>> of their count of 2^-56 (hi * 2^29 + lo), and every  *)
(*    sum and difference is rounded to 53 significant bits, ties to even,  *)
(*    as IEEE 754 does; deltas and fixed_delta_time are whole time units.  *)
(*  - The subject T is opaque: it is modelled as the free deterministic    *)
(*    subject, whose state is the list of calls it has received from its   *)
(*    initial state, each update call together with the held-key state it  *)
(*    can poll from the window at that moment.                             *)
(***************************************************************************)
EXTENDS Integers, Sequences, FiniteSets, TLC

VARIABLES
    game,              \* T: the subject's state (what game.save() returns)
    time_scale,        \* f64
    paused,
    auto_paused,
    fixed_delta_time,
    saved_states,      \* Vec<SaveState>
    frame,
    inputs,            \* Vec<FrameInput>: the input log
    replay,            \* Option<Replay>
    initial_state,
    acc_delta_time,    \* f64
    queued_inputs,     \* Vec<Event>
    pressed_keys,
    pressed_buttons,
    window_keys,       \* last value given to window().set_pressed_keys
    window_buttons,    \* last value given to window().set_pressed_buttons
    run_file,          \* Option<SavedTas>: content of tas.json
    states_file,       \* Option<Vec<SaveState>>: content of savedstates.json
    aborted,           \* the process has panicked
    error_log,         \* the messages given to log::error!, oldest first
    wall,              \* host clock: sum of the deltas of the unpaused calls
    calls,             \* host clock: number of unpaused fixed_update calls
    live_only,         \* history: no load_state / load_run since construction
    file_orig,         \* history: subject state when a live-only run was saved
    replay_orig        \* history: file_orig of the file the replay was loaded from

vars == <<game, time_scale, paused, auto_paused, fixed_delta_time, saved_states,
          frame, inputs, replay, initial_state, acc_delta_time, queued_inputs,
          pressed_keys, pressed_buttons, window_keys, window_buttons,
          run_file, states_file, aborted, error_log, wall, calls, live_only,
          file_orig, replay_orig>>

\* ---------------------------------------------------------------- bounds
\* ticks simulated
MaxFrame == 3
\* events waiting in queued_inputs
MaxQueue == 2
\* events held by the input log and the queue together
MaxEvents == 2
\* checkpoints in saved_states
MaxSaves == 1
\* host time fed to fixed_update (SpecClock)
MaxWall == 4
\* unpaused fixed_update calls (SpecScale)
MaxCalls == 12
\* messages in error_log
MaxLog == 2
\* checkpoints in saved_states (SpecDelete)
MaxStored == 3

\* ------------------------------------------------------------- constants
\* f64: significant bits of the mantissa
MantissaBits == 53
\* f64 values are counted in units of 2^-UnitBits
UnitBits == 56
\* the count of units is held in two limbs, the low one of LimbBits bits
LimbBits == 29
\* fixed_delta_time: 1.0
InitialFixedDelta == 1

\* --------------------------------------------------------------- helpers
None == <<>>
Some(x) == <<x>>
Max(a, b) == IF a >= b THEN a ELSE b

\* ------------------------------------------------------------------- f64
Limb == 2 ^ LimbBits
F64Zero == <<0, 0>>
\* a whole number as f64
F64FromInt(n) == <<n * 2 ^ (UnitBits - LimbBits), 0>>
\* 0.05, the step of the Left / Right bindings: 0x1.999999999999ap-5
F64Step == <<6710886, 214748365>>
\* 0.1: 0x1.999999999999ap-4
F64Tenth == <<13421772, 429496730>>
\* 2^-52, and 2^-56, the smallest value above 0 that is counted here
F64Epsilon == <<0, 2 ^ (UnitBits - MantissaBits + 1)>>
F64Tiny == <<0, 1>>
\* 0.25 and 0.5
F64Quarter == <<2 ^ (UnitBits - LimbBits - 2), 0>>
F64Half == <<2 ^ (UnitBits - LimbBits - 1), 0>>

F64Le(a, b) == a[1] < b[1] \/ (a[1] = b[1] /\ a[2] <= b[2])
F64Lt(a, b) == ~F64Le(b, a)

\* the sum and the difference (a >= b) before rounding
ExactAdd(a, b) ==
    LET lo == a[2] + b[2]
    IN  <<a[1] + b[1] + (lo \div Limb), lo % Limb>>
ExactSub(a, b) ==
    LET lo == a[2] - b[2]
    IN  IF lo >= 0 THEN <<a[1] - b[1], lo>> ELSE <<a[1] - b[1] - 1, lo + Limb>>
RECURSIVE ExactTimes(_, _)
\* n * a for a natural number n
ExactTimes(n, a) == IF n = 0 THEN F64Zero ELSE ExactAdd(a, ExactTimes(n - 1, a))

RECURSIVE ExtraBits(_)
\* how many low bits of the count a 53-bit mantissa cannot hold
ExtraBits(hi) ==
    IF hi < 2 ^ (MantissaBits - LimbBits) THEN 0 ELSE 1 + ExtraBits(hi \div 2)

\* round to nearest, ties to even
Round53(v) ==
    LET k == ExtraBits(v[1])
        ulp == 2 ^ k
        r == v[2] % ulp
        down == v[2] - r
        up == 2 * r > ulp \/ (2 * r = ulp /\ (down \div ulp) % 2 = 1)
        lo == IF up THEN down + ulp ELSE down
    IN  IF k = 0 THEN v ELSE <<v[1] + (lo \div Limb), lo % Limb>>

F64Add(a, b) == Round53(ExactAdd(a, b))
\* a - b for a >= b
F64Sub(a, b) == Round53(ExactSub(a, b))
\* (a - b).max(0.0)
F64SubMax0(a, b) == IF F64Le(a, b) THEN F64Zero ELSE F64Sub(a, b)
\* delta * a for a whole delta
F64Times(n, a) == Round53(ExactTimes(n, a))

KeyDown(k) == <<"KeyDown", k>>
KeyUp(k) == <<"KeyUp", k>>
MouseDown(b) == <<"MouseDown", b>>
MouseUp(b) == <<"MouseUp", b>>

\* The subject's state when the controller is constructed.
S0 == <<>>

\* The whole controller (and the files and window it writes) as one value,
\* so that a handler is a function from the state before to the state after.
Self ==
    [game |-> game, time_scale |-> time_scale, paused |-> paused,
     auto_paused |-> auto_paused, fixed_delta_time |-> fixed_delta_time,
     saved_states |-> saved_states, frame |-> frame, inputs |-> inputs,
     replay |-> replay, initial_state |-> initial_state,
     acc_delta_time |-> acc_delta_time, queued_inputs |-> queued_inputs,
     pressed_keys |-> pressed_keys, pressed_buttons |-> pressed_buttons,
     window_keys |-> window_keys, window_buttons |-> window_buttons,
     run_file |-> run_file, states_file |-> states_file, aborted |-> aborted,
     error_log |-> error_log,
     live_only |-> live_only, file_orig |-> file_orig,
     replay_orig |-> replay_orig]

Commit(t) ==
    /\ game' = t.game
    /\ time_scale' = t.time_scale
    /\ paused' = t.paused
    /\ auto_paused' = t.auto_paused
    /\ fixed_delta_time' = t.fixed_delta_time
    /\ saved_states' = t.saved_states
    /\ frame' = t.frame
    /\ inputs' = t.inputs
    /\ replay' = t.replay
    /\ initial_state' = t.initial_state
    /\ acc_delta_time' = t.acc_delta_time
    /\ queued_inputs' = t.queued_inputs
    /\ pressed_keys' = t.pressed_keys
    /\ pressed_buttons' = t.pressed_buttons
    /\ window_keys' = t.window_keys
    /\ window_buttons' = t.window_buttons
    /\ run_file' = t.run_file
    /\ states_file' = t.states_file
    /\ aborted' = t.aborted
    /\ error_log' = t.error_log
    /\ live_only' = t.live_only
    /\ file_orig' = t.file_orig
    /\ replay_orig' = t.replay_orig

\* ------------------------------------------------------------ the subject
\* game.handle_event(event)
game_handle_event(g, e) == Append(g, <<"handle_event", e>>)
\* game.update(dt); the subject may poll the window's held keys and buttons
game_update(g, dt, wk, wb) == Append(g, <<"update", dt, wk, wb>>)
\* game.fixed_update(dt)
game_fixed_update(g, dt, wk, wb) == Append(g, <<"fixed_update", dt, wk, wb>>)

\* log::error!(message)
log_error(t, message) == [t EXCEPT !.error_log = Append(@, message)]

\* ---------------------------------------------------------- checkpoints
\* save_savestates: writes the whole list, or fails and writes nothing
save_savestates(t, ok) ==
    IF ok THEN [t EXCEPT !.states_file = Some(t.saved_states)] ELSE t

\* the new checkpoint stays in the list when the file cannot be written
save_state(t, ok) ==
    LET t1 == save_savestates(
                  [t EXCEPT !.saved_states = Append(@,
                      [frame |-> t.frame,
                       inputs |-> t.inputs,
                       initial_state |-> t.initial_state,
                       state |-> t.game,
                       pressed_keys |-> t.pressed_keys,
                       pressed_buttons |-> t.pressed_buttons])],
                  ok)
    IN  IF ok THEN t1 ELSE log_error(t1, "Failed to save states")

\* mutant: load_state that forgets the held mouse buttons
load_state_keeps_buttons(t, index) ==
    LET t1 == [t EXCEPT !.replay = None, !.replay_orig = None]
    IN  IF index < Len(t.saved_states)
        THEN LET state == t.saved_states[index + 1]
             IN  [t1 EXCEPT !.frame = state.frame,
                            !.inputs = state.inputs,
                            !.pressed_keys = state.pressed_keys,
                            !.initial_state = state.initial_state,
                            !.game = state.state,
                            !.live_only = FALSE]
        ELSE t1

\* index counts from 0, as in the code; replay_orig and live_only are the
\* history kept beside replay and the log
load_state(t, index) ==
    LET t1 == [t EXCEPT !.replay = None, !.replay_orig = None]
    IN  IF index < Len(t.saved_states)
        THEN LET state == t.saved_states[index + 1]
             IN  [t1 EXCEPT !.frame = state.frame,
                            !.inputs = state.inputs,
                            !.pressed_keys = state.pressed_keys,
                            !.pressed_buttons = state.pressed_buttons,
                            !.initial_state = state.initial_state,
                            !.game = state.state,
                            !.live_only = FALSE]
        ELSE t1

\* Vec::remove(index): panics when index >= len
RemoveAt(s, index) ==
    [j \in 1..(Len(s) - 1) |-> IF j <= index THEN s[j] ELSE s[j + 1]]

\* mutant: a delete that fills the hole with the last checkpoint (swap_remove)
delete_state_swap(t, index) ==
    IF index < Len(t.saved_states)
    THEN [t EXCEPT !.saved_states =
              [j \in 1..(Len(@) - 1) |-> IF j = index + 1 THEN @[Len(@)] ELSE @[j]]]
    ELSE [t EXCEPT !.aborted = TRUE]

delete_state(t, index) ==
    IF index < Len(t.saved_states)
    THEN [t EXCEPT !.saved_states = RemoveAt(@, index)]
    ELSE [t EXCEPT !.aborted = TRUE]

\* ------------------------------------------------------------- run files
\* Ok(t') or Err: <<ok, t'>>; file_orig is the history kept beside the file
save_run(t, ok) ==
    IF ok
    THEN <<TRUE, [t EXCEPT !.run_file =
                        Some([initial_state |-> t.initial_state,
                              inputs |-> t.inputs]),
                    !.file_orig = IF t.live_only THEN Some(t.game) ELSE None]>>
    ELSE <<FALSE, t>>

\* mutant: load_run that does not clear the pressed sets
load_run_keeps_pressed(t, ok) ==
    IF ok /\ t.run_file # None
    THEN LET saved == t.run_file[1]
         IN  <<TRUE,
               [t EXCEPT !.game = saved.initial_state,
                         !.frame = 0,
                         !.queued_inputs = <<>>,
                         !.inputs = <<>>,
                         !.replay = Some(
                             [frame |-> 0,
                              input |-> 0,
                              next_input |-> IF saved.inputs = <<>> THEN 0
                                             ELSE saved.inputs[1].frames,
                              inputs |-> saved.inputs]),
                         !.live_only = FALSE,
                         !.replay_orig = t.file_orig]>>
    ELSE <<FALSE, t>>

\* mutant: load_run that resets the controller before it opens the file
load_run_resets_first(t, ok) ==
    LET t0 == [t EXCEPT !.frame = 0,
                        !.queued_inputs = <<>>,
                        !.inputs = <<>>,
                        !.pressed_keys = {},
                        !.pressed_buttons = {}]
    IN  IF ok /\ t.run_file # None
        THEN LET saved == t.run_file[1]
             IN  <<TRUE,
                   [t0 EXCEPT !.game = saved.initial_state,
                              !.replay = Some(
                                  [frame |-> 0,
                                   input |-> 0,
                                   next_input |-> IF saved.inputs = <<>> THEN 0
                                                  ELSE saved.inputs[1].frames,
                                   inputs |-> saved.inputs]),
                              !.live_only = FALSE,
                              !.replay_orig = t.file_orig]>>
        ELSE <<FALSE, t0>>

\* the file is opened and parsed (ok: it can be) before anything is assigned
load_run(t, ok) ==
    IF ok /\ t.run_file # None
    THEN LET saved == t.run_file[1]
         IN  <<TRUE,
               [t EXCEPT !.game = saved.initial_state,
                         !.frame = 0,
                         !.queued_inputs = <<>>,
                         !.inputs = <<>>,
                         !.pressed_keys = {},
                         !.pressed_buttons = {},
                         !.replay = Some(
                             [frame |-> 0,
                              input |-> 0,
                              next_input |-> IF saved.inputs = <<>> THEN 0
                                             ELSE saved.inputs[1].frames,
                              inputs |-> saved.inputs]),
                         !.live_only = FALSE,
                         !.replay_orig = t.file_orig]>>
    ELSE <<FALSE, t>>

\* ------------------------------------------------------------ next_frame
pressed_keys_after(pk, e) ==
    CASE e[1] = "KeyDown" -> pk \cup {e[2]}
      [] e[1] = "KeyUp" -> pk \ {e[2]}
      [] OTHER -> pk

pressed_buttons_after(pb, e) ==
    CASE e[1] = "MouseDown" -> pb \cup {e[2]}
      [] e[1] = "MouseUp" -> pb \ {e[2]}
      [] OTHER -> pb

\* "Simulate inputs": one event of the for loop
simulate_input(t, e) ==
    LET pk == pressed_keys_after(t.pressed_keys, e)
        pb == pressed_buttons_after(t.pressed_buttons, e)
    IN  [t EXCEPT !.pressed_keys = pk,
                  !.pressed_buttons = pb,
                  !.window_keys = pk,
                  !.window_buttons = pb,
                  !.game = game_handle_event(@, e)]

RECURSIVE simulate_inputs(_, _)
simulate_inputs(t, evs) ==
    IF evs = <<>> THEN t
    ELSE simulate_inputs(simulate_input(t, Head(evs)), Tail(evs))

\* mutant: a replay cursor that moves to the next entry on every tick
advance_replay_every_tick(r) ==
    IF r.input < Len(r.inputs)
    THEN [r EXCEPT !.next_input = IF r.input + 1 < Len(r.inputs)
                                  THEN r.inputs[r.input + 2].frames
                                  ELSE 0,
                   !.input = @ + 1,
                   !.frame = @ + 1]
    ELSE r

\* mutant: a replay cursor that never moves to the next entry
advance_replay_stuck(r) ==
    IF r.input < Len(r.inputs)
    THEN [r EXCEPT !.next_input = Max(r.next_input - 1, 0),
                   !.frame = @ + 1]
    ELSE r

\* "Update inputs", replay branch
advance_replay(r) ==
    IF r.input < Len(r.inputs)
    THEN LET next_input == Max(r.next_input - 1, 0)
             input == IF next_input = 0 THEN r.input + 1 ELSE r.input
         IN  [r EXCEPT !.next_input =
                           IF next_input = 0 /\ input < Len(r.inputs)
                           THEN r.inputs[input + 1].frames
                           ELSE next_input,
                       !.input = input,
                       !.frame = @ + 1]
    ELSE r

\* mutant: a recorder that starts a new entry on every tick
record_inputs_always_push(log, queued) ==
    Append(log, [frames |-> 1, inputs |-> queued])

\* "Update inputs", record branch
record_inputs(log, queued) ==
    IF log # <<>> /\ log[Len(log)].inputs = queued
    THEN [log EXCEPT ![Len(log)].frames = @ + 1]
    ELSE Append(log, [frames |-> 1, inputs |-> queued])

\* "Update": the subject's update and fixed_update, then frame += 1
update_subject(t) ==
    [t EXCEPT !.game = game_fixed_update(
                           game_update(@, t.fixed_delta_time,
                                       t.window_keys, t.window_buttons),
                           t.fixed_delta_time, t.window_keys, t.window_buttons),
              !.frame = @ + 1]

\* mutant: next_frame that updates the subject before it simulates the inputs
next_frame_update_first(t) ==
    IF t.replay # None /\ t.replay[1].input >= Len(t.replay[1].inputs)
    THEN [t EXCEPT !.paused = TRUE]
    ELSE LET frame_inputs == IF t.replay # None
                             THEN t.replay[1].inputs[t.replay[1].input + 1].inputs
                             ELSE t.queued_inputs
             t1 == simulate_inputs(update_subject(t), frame_inputs)
         IN  IF t1.replay # None
             THEN [t1 EXCEPT !.replay = Some(advance_replay(t1.replay[1]))]
             ELSE [t1 EXCEPT !.inputs = record_inputs(@, t1.queued_inputs),
                             !.queued_inputs = <<>>]

\* mutant: next_frame that uninstalls the replay when its log has ended
next_frame_drops_replay(t) ==
    IF t.replay # None /\ t.replay[1].input >= Len(t.replay[1].inputs)
    THEN [t EXCEPT !.paused = TRUE, !.replay = None]
    ELSE LET frame_inputs == IF t.replay # None
                             THEN t.replay[1].inputs[t.replay[1].input + 1].inputs
                             ELSE t.queued_inputs
             t1 == simulate_inputs(t, frame_inputs)
             t2 == IF t1.replay # None
                   THEN [t1 EXCEPT !.replay = Some(advance_replay(t1.replay[1]))]
                   ELSE [t1 EXCEPT !.inputs = record_inputs(@, t1.queued_inputs),
                                   !.queued_inputs = <<>>]
         IN  update_subject(t2)

next_frame(t) ==
    IF t.replay # None /\ t.replay[1].input >= Len(t.replay[1].inputs)
    THEN [t EXCEPT !.paused = TRUE]
    ELSE LET frame_inputs == IF t.replay # None
                             THEN t.replay[1].inputs[t.replay[1].input + 1].inputs
                             ELSE t.queued_inputs
             t1 == simulate_inputs(t, frame_inputs)
             t2 == IF t1.replay # None
                   THEN [t1 EXCEPT !.replay = Some(advance_replay(t1.replay[1]))]
                   ELSE [t1 EXCEPT !.inputs = record_inputs(@, t1.queued_inputs),
                                   !.queued_inputs = <<>>]
         IN  update_subject(t2)

\* ---------------------------------------------------------- fixed_update
\* the while loop
RECURSIVE run_frames(_, _)
run_frames(t, sim_time) ==
    IF F64Le(F64FromInt(t.fixed_delta_time), sim_time)
    THEN run_frames(next_frame(t),
                    F64Sub(sim_time, F64FromInt(t.fixed_delta_time)))
    ELSE [t EXCEPT !.acc_delta_time = sim_time]

\* mutant: fixed_update that keeps ticking while LAlt is held
fixed_update_in_capture(t, delta_time) ==
    LET t1 == [t EXCEPT !.fixed_delta_time = delta_time]
    IN  IF ~t1.paused
        THEN run_frames(t1, F64Add(t1.acc_delta_time,
                                   F64Times(delta_time, t1.time_scale)))
        ELSE t1

fixed_update(t, delta_time) ==
    LET t1 == [t EXCEPT !.fixed_delta_time = delta_time]
    IN  IF ~t1.paused /\ ~t1.auto_paused
        THEN run_frames(t1, F64Add(t1.acc_delta_time,
                                   F64Times(delta_time, t1.time_scale)))
        ELSE t1

\* ---------------------------------------------------------- handle_event
capture_event(t, key, ok) ==
    CASE key = "S" ->
            LET r == save_run(t, ok)
            IN  IF r[1] THEN r[2] ELSE [t EXCEPT !.aborted = TRUE]
      [] key = "K" -> save_state(t, ok)
      [] key = "L" /\ t.saved_states # <<>> ->
            load_state(t, Len(t.saved_states) - 1)
      [] key = "P" -> [t EXCEPT !.paused = ~@]
      [] key = "Left" -> [t EXCEPT !.time_scale = F64SubMax0(@, F64Step)]
      [] key = "Right" -> [t EXCEPT !.time_scale = F64Add(@, F64Step)]
      [] OTHER -> t

\* mutant: handle_event that enqueues live events while a replay is installed
handle_event_during_replay(t, event, ok) ==
    LET t1 == IF event = KeyDown("LAlt") THEN [t EXCEPT !.auto_paused = TRUE]
              ELSE IF event = KeyUp("LAlt") THEN [t EXCEPT !.auto_paused = FALSE]
              ELSE t
    IN  IF t1.auto_paused
        THEN IF event[1] = "KeyDown" THEN capture_event(t1, event[2], ok) ELSE t1
        ELSE [t1 EXCEPT !.queued_inputs = Append(@, event)]

handle_event(t, event, ok) ==
    LET t1 == IF event = KeyDown("LAlt") THEN [t EXCEPT !.auto_paused = TRUE]
              ELSE IF event = KeyUp("LAlt") THEN [t EXCEPT !.auto_paused = FALSE]
              ELSE t
    IN  IF t1.auto_paused
        THEN IF event[1] = "KeyDown" THEN capture_event(t1, event[2], ok) ELSE t1
        ELSE IF t1.replay # None THEN t1
        ELSE [t1 EXCEPT !.queued_inputs = Append(@, event)]

\* -------------------------------------------------------------------- ui
ui_save_run(t, ok) ==
    LET r == save_run(t, ok)
    IN  IF r[1] THEN r[2] ELSE log_error(r[2], "Failed to save run")
ui_start_replay(t, ok) ==
    LET r == load_run(t, ok)
    IN  IF r[1] THEN r[2] ELSE log_error(r[2], "Failed to load run")
ui_save_state(t, ok) == save_state(t, ok)
ui_load_state(t, i) == load_state(t, i)
ui_delete_state(t, i) == delete_state(t, i)
ui_time_scale(t, value) == [t EXCEPT !.time_scale = value]

\* ------------------------------------------------------------ the inputs
\* The events the host sends while LAlt is up (live) and while it is held
\* (capture), for each specification.
LiveEvents == {KeyDown("A"), MouseDown("Left"), KeyDown("LAlt")}
CaptureEvents ==
    {KeyDown("S"), KeyDown("K"), KeyDown("L"), KeyDown("P"), KeyUp("LAlt")}
\* file I/O succeeds / may fail
IoOk == {TRUE}
IoAny == BOOLEAN
\* the delta the host passes to fixed_update
HostDeltas == {InitialFixedDelta}

RECURSIVE CountEvents(_)
CountEvents(log) ==
    IF log = <<>> THEN 0
    ELSE Len(Head(log).inputs) + CountEvents(Tail(log))

\* the state stays within the bounds of the model
InBoundsWith(t, saves) ==
    /\ t.frame <= MaxFrame
    /\ Len(t.queued_inputs) <= MaxQueue
    /\ CountEvents(t.inputs) + Len(t.queued_inputs) <= MaxEvents
    /\ Len(t.saved_states) <= saves
    /\ Len(t.error_log) <= MaxLog

InBounds(t) == InBoundsWith(t, MaxSaves)

\* --------------------------------------------------------------- actions
Step(t) == ~aborted /\ InBounds(t) /\ Commit(t)

FixedUpdate(deltas) ==
    /\ \E d \in deltas : Step(fixed_update(Self, d))
    /\ UNCHANGED <<wall, calls>>

HandleEvent(live, capture, io) ==
    /\ \E e \in (IF auto_paused THEN capture ELSE live) :
         \E ok \in io : Step(handle_event(Self, e, ok))
    /\ UNCHANGED <<wall, calls>>

UiSaveRun(io) ==
    (\E ok \in io : Step(ui_save_run(Self, ok))) /\ UNCHANGED <<wall, calls>>

\* opening tas.json cannot succeed when there is no such file
UiStartReplay(io) ==
    /\ \E ok \in io : (ok => run_file # None) /\ Step(ui_start_replay(Self, ok))
    /\ UNCHANGED <<wall, calls>>

UiSaveState(io) ==
    (\E ok \in io : Step(ui_save_state(Self, ok))) /\ UNCHANGED <<wall, calls>>

\* the Load and Delete buttons exist for the indices of the list only
UiLoadState ==
    /\ \E i \in 0..(Len(saved_states) - 1) : Step(ui_load_state(Self, i))
    /\ UNCHANGED <<wall, calls>>

UiDeleteState ==
    /\ \E i \in 0..(Len(saved_states) - 1) : Step(ui_delete_state(Self, i))
    /\ UNCHANGED <<wall, calls>>

InitWith(file) ==
    /\ game = S0
    /\ time_scale = F64FromInt(1)
    /\ paused = TRUE
    /\ auto_paused = FALSE
    /\ fixed_delta_time = InitialFixedDelta
    /\ saved_states = <<>>
    /\ frame = 0
    /\ inputs = <<>>
    /\ replay = None
    /\ initial_state = S0
    /\ acc_delta_time = F64Zero
    /\ queued_inputs = <<>>
    /\ pressed_keys = {}
    /\ pressed_buttons = {}
    /\ window_keys = {}
    /\ window_buttons = {}
    /\ run_file = file
    /\ states_file = None
    /\ aborted = FALSE
    /\ error_log = <<>>
    /\ wall = 0
    /\ calls = 0
    /\ live_only = TRUE
    /\ file_orig = None
    /\ replay_orig = None

\* Tas::new in a directory with neither tas.json nor savedstates.json
Init == InitWith(None)

Next ==
    \/ FixedUpdate(HostDeltas)
    \/ HandleEvent(LiveEvents, CaptureEvents, IoOk)
    \/ UiSaveRun(IoOk)
    \/ UiStartReplay(IoOk)
    \/ UiSaveState(IoOk)
    \/ UiLoadState

Spec == Init /\ [][Next]_vars

\* ------------------------------------------------------------ SpecClock
\* The clock alone: the host passes deltas of one or two time units, the user
\* pauses and unpauses (LAlt+P); time_scale stays 1.0.
ClockDeltas == {InitialFixedDelta, 2 * InitialFixedDelta}
ClockLiveEvents == {KeyDown("LAlt")}
ClockCaptureEvents == {KeyDown("P"), KeyUp("LAlt")}

Unpaused == ~paused /\ ~auto_paused

\* fixed_update, with the host's clock kept beside it
ClockFixedUpdate(deltas) ==
    \E d \in deltas :
        /\ Step(fixed_update(Self, d))
        /\ wall' = IF Unpaused THEN wall + d ELSE wall
        /\ calls' = IF Unpaused THEN calls + 1 ELSE calls
        /\ wall' <= MaxWall

NextClock ==
    \/ ClockFixedUpdate(ClockDeltas)
    \/ HandleEvent(ClockLiveEvents, ClockCaptureEvents, IoOk)

SpecClock == Init /\ [][NextClock]_vars

\* ----------------------------------------------------------- SpecReplay
\* Replaying run files that were not written by this session: the example of
\* the specification, a run with a repeated entry and mouse events, a run whose
\* first entry was edited to last 0 frames, and the empty run.
SampleRuns ==
    { [initial_state |-> S0,
       inputs |-> << [frames |-> 1, inputs |-> <<KeyDown("A")>>],
                     [frames |-> 1, inputs |-> <<KeyUp("A")>>],
                     [frames |-> 1, inputs |-> <<KeyDown("B")>>] >>],
      [initial_state |-> S0,
       inputs |-> << [frames |-> 2,
                      inputs |-> <<MouseDown("Left"), KeyDown("A")>>],
                     [frames |-> 1, inputs |-> <<MouseUp("Left")>>] >>],
      [initial_state |-> S0,
       inputs |-> << [frames |-> 0, inputs |-> <<KeyDown("A")>>],
                     [frames |-> 1, inputs |-> <<>>] >>],
      [initial_state |-> S0, inputs |-> <<>>] }

ReplayLiveEvents == {KeyDown("A"), KeyDown("LAlt")}
ReplayCaptureEvents == {KeyDown("P"), KeyUp("LAlt")}
\* the values the time-scale slider is moved to: 1.0 and 2.0
SliderScales == {F64FromInt(1), F64FromInt(2)}

UiTimeScale(scales) ==
    (\E v \in scales : Step(ui_time_scale(Self, v))) /\ UNCHANGED <<wall, calls>>

InitReplay == \E r \in SampleRuns : InitWith(Some(r))

NextReplay ==
    \/ UiStartReplay(IoOk)
    \/ FixedUpdate(HostDeltas)
    \/ HandleEvent(ReplayLiveEvents, ReplayCaptureEvents, IoOk)
    \/ UiTimeScale(SliderScales)

SpecReplay == InitReplay /\ [][NextReplay]_vars

\* ------------------------------------------------------------ SpecStore
\* The checkpoint store: load_state and delete_state called with any index, as
\* operations of the controller, and a run file of an earlier session to replay.
StoreLiveEvents == {KeyDown("LAlt")}
StoreCaptureEvents == {KeyDown("K"), KeyDown("L"), KeyDown("P"), KeyUp("LAlt")}
StoreRun ==
    [initial_state |-> S0,
     inputs |-> << [frames |-> 2, inputs |-> <<KeyDown("A")>>],
                   [frames |-> 1, inputs |-> <<KeyUp("A")>>] >>]
StoreIndices == 0..(MaxSaves + 1)

CallLoadState ==
    (\E i \in StoreIndices : Step(load_state(Self, i))) /\ UNCHANGED <<wall, calls>>

CallDeleteState ==
    (\E i \in StoreIndices : Step(delete_state(Self, i)))
    /\ UNCHANGED <<wall, calls>>

InitStore == InitWith(Some(StoreRun))

NextStore ==
    \/ FixedUpdate(HostDeltas)
    \/ HandleEvent(StoreLiveEvents, StoreCaptureEvents, IoOk)
    \/ UiStartReplay(IoOk)
    \/ UiSaveState(IoOk)
    \/ CallLoadState
    \/ CallDeleteState

SpecStore == InitStore /\ [][NextStore]_vars

\* ----------------------------------------------------------- SpecDelete
\* The Save state and Delete buttons on a store of up to MaxStored checkpoints,
\* taken while a run is recorded; savedstates.json may fail to be written.
DeleteLiveEvents == {KeyDown("LAlt")}
DeleteCaptureEvents == {KeyDown("P"), KeyUp("LAlt")}

StoreStep(t) == ~aborted /\ InBoundsWith(t, MaxStored) /\ Commit(t)

StoreFixedUpdate(deltas) ==
    (\E d \in deltas : StoreStep(fixed_update(Self, d)))
    /\ UNCHANGED <<wall, calls>>

StoreHandleEvent(live, capture, io) ==
    /\ \E e \in (IF auto_paused THEN capture ELSE live) :
         \E ok \in io : StoreStep(handle_event(Self, e, ok))
    /\ UNCHANGED <<wall, calls>>

StoreSaveState(io) ==
    (\E ok \in io : StoreStep(ui_save_state(Self, ok)))
    /\ UNCHANGED <<wall, calls>>

StoreDeleteState ==
    /\ \E i \in 0..(Len(saved_states) - 1) : StoreStep(ui_delete_state(Self, i))
    /\ UNCHANGED <<wall, calls>>

NextDelete ==
    \/ StoreFixedUpdate(HostDeltas)
    \/ StoreHandleEvent(DeleteLiveEvents, DeleteCaptureEvents, IoOk)
    \/ StoreSaveState(IoAny)
    \/ StoreDeleteState

SpecDelete == Init /\ [][NextDelete]_vars

\* --------------------------------------------------------------- SpecIo
\* Run files on a disk that can fail: every save_run and load_run may succeed
\* or not; no checkpoints.
IoLiveEvents == {KeyDown("A"), KeyDown("LAlt")}
IoCaptureEvents == {KeyDown("S"), KeyDown("P"), KeyUp("LAlt")}

NextIo ==
    \/ FixedUpdate(HostDeltas)
    \/ HandleEvent(IoLiveEvents, IoCaptureEvents, IoAny)
    \/ UiSaveRun(IoAny)
    \/ UiStartReplay(IoAny)

SpecIo == Init /\ [][NextIo]_vars

\* ------------------------------------------------------------ SpecScale
\* Slow motion: the time scale is set by the slider, or by the Left / Right
\* bindings between 0.75 and 1.25, before the first unpaused fixed_update call
\* and kept from then on; the host passes a delta of one time unit while the
\* simulation runs and of one or two while it is paused; tas.json can be
\* replayed.
ScaleDeltas == {InitialFixedDelta, 2 * InitialFixedDelta}
RunningDeltas == {InitialFixedDelta}
ScaleLiveEvents == {KeyDown("LAlt")}
ScaleCaptureEvents == {KeyDown("P"), KeyUp("LAlt")}
ScaleKeys == {KeyDown("Left"), KeyDown("Right")}
\* the values the time-scale slider is moved to
SliderValues ==
    {F64Zero, F64Tenth, F64Quarter, F64Half, F64FromInt(1), F64FromInt(2)}

ScaleFixedUpdate(running, deltas) ==
    \E d \in (IF Unpaused THEN running ELSE deltas) :
        /\ Step(fixed_update(Self, d))
        /\ wall' = IF Unpaused THEN wall + d ELSE wall
        /\ calls' = IF Unpaused THEN calls + 1 ELSE calls
        /\ calls' <= MaxCalls

SetTimeScale ==
    /\ calls = 0
    /\ \/ UiTimeScale(SliderValues)
       \/ /\ HandleEvent({}, ScaleKeys, IoOk)
          /\ F64Le(ExactSub(F64FromInt(1), F64Quarter), time_scale')
          /\ F64Le(time_scale', ExactAdd(F64FromInt(1), F64Quarter))

NextScale ==
    \/ ScaleFixedUpdate(RunningDeltas, ScaleDeltas)
    \/ HandleEvent(ScaleLiveEvents, ScaleCaptureEvents, IoOk)
    \/ SetTimeScale
    \/ UiStartReplay(IoOk)

SpecScale == InitStore /\ [][NextScale]_vars

\* ------------------------------------------------------------- SpecLive
\* One replay of tas.json, run to its end: Start replay is pressed once, the
\* user pauses, unpauses and moves the time-scale slider at will (to 2^-56 only
\* while half a step is in the accumulator), and the host keeps calling
\* fixed_update: whenever the controller is again and again unpaused with a
\* time scale above 0 (of at least 2^-52), one of the calls finds it so.
LiveLiveEvents == {KeyDown("LAlt")}
LiveCaptureEvents == {KeyDown("P"), KeyUp("LAlt")}
LiveScales == {F64Zero, F64Half, F64FromInt(1)}
CrawlScales == {F64Tiny}

Running == Unpaused /\ time_scale # F64Zero
RunningAtScale == Unpaused /\ F64Le(F64Epsilon, time_scale)

StartReplayOnce == replay = None /\ UiStartReplay(IoOk)

SlowToCrawl == F64Le(F64Half, acc_delta_time) /\ UiTimeScale(CrawlScales)

NextLive ==
    \/ StartReplayOnce
    \/ FixedUpdate(HostDeltas)
    \/ HandleEvent(LiveLiveEvents, LiveCaptureEvents, IoOk)
    \/ UiTimeScale(LiveScales)
    \/ SlowToCrawl

\* a call of fixed_update is possible and changes the state: ENABLED of
\* <<FixedUpdate(HostDeltas)>>_vars, written out
CanCall ==
    /\ ~aborted
    /\ \E d \in HostDeltas :
         InBounds(fixed_update(Self, d)) /\ fixed_update(Self, d) # Self

\* strong fairness of the calls of fixed_update that find the controller
\* running, and of those that find it running at scale
FairRunning ==
    (<>[]~(Running /\ CanCall))
        \/ ([]<><<Running /\ FixedUpdate(HostDeltas)>>_vars)
FairAtScale ==
    (<>[]~(RunningAtScale /\ CanCall))
        \/ ([]<><<RunningAtScale /\ FixedUpdate(HostDeltas)>>_vars)

SpecLive == InitReplay /\ [][NextLive]_vars /\ FairRunning /\ FairAtScale

\* ------------------------------------------------- reading subject traces
IsCall(c, name) == c[1] = name

\* the events the subject was handed, in order
HandledEvents(g) ==
    LET h == SelectSeq(g, LAMBDA c : IsCall(c, "handle_event"))
    IN  [i \in 1..Len(h) |-> h[i][2]]

\* the number of ticks the subject has run
TickCount(g) == Cardinality({i \in DOMAIN g : IsCall(g[i], "fixed_update")})

\* the subject's trace up to the end of its k-th tick
TickPrefix(g, k) ==
    IF k = 0 THEN <<>>
    ELSE SubSeq(g, 1,
            CHOOSE i \in DOMAIN g :
                /\ IsCall(g[i], "fixed_update")
                /\ TickCount(SubSeq(g, 1, i)) = k)

\* the calls of g after its prefix p
Suffix(g, p) == SubSeq(g, Len(p) + 1, Len(g))
IsPrefix(p, g) == Len(p) <= Len(g) /\ SubSeq(g, 1, Len(p)) = p

RECURSIVE HeldKeys(_)
HeldKeys(evs) ==
    IF evs = <<>> THEN {}
    ELSE pressed_keys_after(HeldKeys(SubSeq(evs, 1, Len(evs) - 1)), evs[Len(evs)])

RECURSIVE HeldButtons(_)
HeldButtons(evs) ==
    IF evs = <<>> THEN {}
    ELSE pressed_buttons_after(HeldButtons(SubSeq(evs, 1, Len(evs) - 1)),
                               evs[Len(evs)])

\* every update is followed at once by the fixed_update of the same tick, every
\* fixed_update follows an update, and no handle_event is left after the last tick
TicksWellFormed(g) ==
    /\ \A i \in DOMAIN g :
         /\ IsCall(g[i], "update") =>
                i < Len(g) /\ IsCall(g[i + 1], "fixed_update")
         /\ IsCall(g[i], "fixed_update") => i > 1 /\ IsCall(g[i - 1], "update")
    /\ g # <<>> => IsCall(g[Len(g)], "fixed_update")

\* a step of fixed_update that runs at least one tick of the subject
IsFixedUpdate == \E d \in HostDeltas : Step(fixed_update(Self, d))
IsTick == IsFixedUpdate /\ game' # game

\* ------------------------------------------------------------------ claims

\* C1 (record/replay equivalence): a run recorded by live ticks alone from the
\* fresh controller, saved and loaded again, replays tick for tick: after k
\* replay ticks the subject has received exactly the calls of the first k ticks
\* of the recording (events, then update and fixed_update, with the same polled
\* held state), the pressed sets are those the recording had after tick k, the
\* replay ends after exactly the n recorded ticks, and the subject then holds
\* the state it had when the run was saved.
C1_RecordReplayEquivalence ==
    /\ live_only =>
         /\ pressed_keys = HeldKeys(HandledEvents(game))
         /\ pressed_buttons = HeldButtons(HandledEvents(game))
    /\ (replay # None /\ replay_orig # None) =>
         LET orig == replay_orig[1]
         IN  /\ frame <= TickCount(orig)
             /\ game = TickPrefix(orig, frame)
             /\ pressed_keys = HeldKeys(HandledEvents(TickPrefix(orig, frame)))
             /\ pressed_buttons =
                    HeldButtons(HandledEvents(TickPrefix(orig, frame)))
             /\ (replay[1].input >= Len(replay[1].inputs)) <=>
                    (frame = TickCount(orig))
             /\ frame = TickCount(orig) => game = orig

\* a replay of a recorded run of three ticks with a held key has run to its end
C1_Witness ==
    /\ replay # None /\ replay_orig # None
    /\ frame = MaxFrame
    /\ TickCount(replay_orig[1]) = MaxFrame
    /\ game = replay_orig[1]
    /\ replay[1].input = Len(replay[1].inputs)
    /\ pressed_keys = {"A"}

\* the checkpoint a load restores: index i of the list, by the Load button or
\* by LAlt+L (the last one)
IsLoadState(i) ==
    \/ Step(ui_load_state(Self, i))
    \/ /\ auto_paused
       /\ i = Len(saved_states) - 1
       /\ Step(handle_event(Self, KeyDown("L"), TRUE))

\* C4 (checkpoint fidelity): save_state stores the current frame, log, pressed
\* sets, initial_state and subject state; a stored checkpoint is never changed;
\* load_state of a stored index sets all of these to the stored values and leaves
\* no replay; and save_state followed at once by load_state of the new index
\* changes none of them.
C4_CheckpointFidelity ==
    [][ /\ Len(saved_states') = Len(saved_states) + 1 =>
             saved_states'[Len(saved_states')] =
                 [frame |-> frame, inputs |-> inputs,
                  initial_state |-> initial_state, state |-> game,
                  pressed_keys |-> pressed_keys,
                  pressed_buttons |-> pressed_buttons]
        /\ Len(saved_states') >= Len(saved_states) =>
             \A i \in DOMAIN saved_states : saved_states'[i] = saved_states[i]
        /\ \A i \in 0..(Len(saved_states) - 1) :
             IsLoadState(i) =>
                 /\ frame' = saved_states[i + 1].frame
                 /\ inputs' = saved_states[i + 1].inputs
                 /\ pressed_keys' = saved_states[i + 1].pressed_keys
                 /\ pressed_buttons' = saved_states[i + 1].pressed_buttons
                 /\ initial_state' = saved_states[i + 1].initial_state
                 /\ game' = saved_states[i + 1].state
                 /\ replay' = None
        /\ LET t == load_state(save_state(Self, TRUE), Len(saved_states))
           IN  /\ t.frame = frame
               /\ t.inputs = inputs
               /\ t.pressed_keys = pressed_keys
               /\ t.pressed_buttons = pressed_buttons
               /\ t.initial_state = initial_state
               /\ t.game = game
               /\ t.replay = None
      ]_vars

\* after a load the controller is back at a checkpoint that was taken after a
\* tick, with a key and a button held
C4_Witness ==
    /\ saved_states # <<>>
    /\ ~live_only /\ replay = None
    /\ frame = saved_states[1].frame /\ frame >= 1
    /\ inputs = saved_states[1].inputs
    /\ game = saved_states[1].state
    /\ pressed_keys = saved_states[1].pressed_keys
    /\ pressed_buttons = saved_states[1].pressed_buttons
    /\ pressed_buttons # {}
    /\ run_file # None

\* the events a tick simulates: the replay's current entry, or the queue
FrameInputs ==
    IF replay # None THEN replay[1].inputs[replay[1].input + 1].inputs
    ELSE queued_inputs

\* C7 (ordering inside a tick): the subject's calls always form whole ticks
\* (events, then update, then fixed_update, once each), as many as the frame
\* counter says, with no handle_event outside a tick; and a tick hands the
\* subject exactly the queued (or replayed) events, in their order, before
\* its update.
C7_TickOrdering ==
    [][ /\ TicksWellFormed(game')
        /\ TickCount(game') = frame'
        /\ IsTick =>
             /\ IsPrefix(game, game')
             /\ TickCount(game') = TickCount(game) + 1
             /\ HandledEvents(Suffix(game', game)) = FrameInputs
      ]_vars

\* a replay has run a tick that handed the subject two events in order
C7_Witness ==
    /\ replay # None
    /\ \E i \in DOMAIN game :
         /\ i + 2 <= Len(game)
         /\ game[i] = <<"handle_event", KeyUp("LAlt")>>
         /\ game[i + 1] = <<"handle_event", KeyDown("A")>>
         /\ IsCall(game[i + 2], "update")

\* C8 (held-state push-down): at the update calls of every tick the sets last
\* pushed to the window equal pressed_keys and pressed_buttons.
C8_HeldStatePushedDown ==
    [][ IsTick => window_keys' = pressed_keys' /\ window_buttons' = pressed_buttons'
      ]_vars

\* C9 (capture mode swallows input): an event received while auto_paused is
\* set, or the LAlt press that sets it, is not appended to queued_inputs.
C9_CaptureSwallowsInput ==
    [][ \A e \in LiveEvents \cup CaptureEvents :
          ((auto_paused \/ e = KeyDown("LAlt")) /\ Step(handle_event(Self, e, TRUE)))
              => queued_inputs' = queued_inputs
      ]_vars

\* C10 (pause suspends input capture): an input event received while paused,
\* outside capture mode and with no replay, is not enqueued.
C10_PauseSuspendsCapture ==
    [][ \A e \in LiveEvents \ {KeyDown("LAlt")} :
          (paused /\ ~auto_paused /\ replay = None
             /\ Step(handle_event(Self, e, TRUE)))
              => queued_inputs' = queued_inputs
      ]_vars

\* the input log has no two adjacent entries with equal inputs, and every
\* entry lasts at least one frame
Coalesced(log) ==
    /\ \A i \in DOMAIN log : log[i].frames >= 1
    /\ \A i \in 1..(Len(log) - 1) : log[i].inputs # log[i + 1].inputs

\* C15 (coalescing invariant): from the fresh controller with an empty store,
\* the live input log and the log of every checkpoint have no two adjacent
\* entries with equal inputs, and every entry has frames >= 1.
C15_CoalescingInvariant ==
    /\ Coalesced(inputs)
    /\ \A i \in DOMAIN saved_states : Coalesced(saved_states[i].inputs)

\* the log holds a tick with an event and then two ticks without, coalesced
\* into one entry, and a checkpoint holds the log as it was one tick before
C15_Witness ==
    /\ Len(inputs) = 2
    /\ inputs[1].inputs # <<>> /\ inputs[1].frames = 1
    /\ inputs[2].inputs = <<>> /\ inputs[2].frames = 2
    /\ saved_states # <<>>
    /\ Len(saved_states[1].inputs) = 2
    /\ saved_states[1].inputs[2].frames = 1

RECURSIVE SumFrames(_)
\* the number of ticks a log covers
SumFrames(log) ==
    IF log = <<>> THEN 0 ELSE Head(log).frames + SumFrames(Tail(log))

\* C17 (the log covers every simulated tick): with no replay installed, the
\* frames of the live input log sum to the frame counter, and the frames of
\* the log of every checkpoint sum to the checkpoint's frame.
C17_LogCoversEveryTick ==
    replay = None =>
        /\ SumFrames(inputs) = frame
        /\ \A i \in DOMAIN saved_states :
             SumFrames(saved_states[i].inputs) = saved_states[i].frame

\* C20 (live input is discarded during replay): while a replay is installed,
\* running or exhausted, queued_inputs and the live input log are empty; an
\* event handled then is not enqueued, and a replay tick appends nothing to
\* the log.
C20_ReplayDiscardsLiveInput ==
    [][ /\ replay' # None => queued_inputs' = <<>> /\ inputs' = <<>>
        /\ \A e \in LiveEvents :
             (replay # None /\ ~auto_paused /\ Step(handle_event(Self, e, TRUE)))
                 => /\ queued_inputs' = <<>> /\ inputs' = <<>>
                    /\ game' = game
        /\ (replay # None /\ IsTick) =>
             /\ replay' # None
             /\ inputs' = <<>> /\ queued_inputs' = <<>>
      ]_vars

\* a replay has run two ticks and handed the subject a key press; a
\* checkpoint taken after its first tick holds an empty log, and nothing is
\* queued or logged
C20_Witness ==
    /\ replay # None /\ replay[1].frame = 2
    /\ ~auto_paused /\ ~paused
    /\ pressed_keys # {}
    /\ saved_states # <<>>
    /\ saved_states[1].frame = 1 /\ saved_states[1].inputs = <<>>
    /\ queued_inputs = <<>> /\ inputs = <<>>

\* ---------------------------------------------------- claims of SpecClock

\* C2 (tick determinism): unpaused, with time_scale 1 and the accumulator at 0,
\* deltas that sum to N fixed steps have emitted exactly N ticks, however the
\* total is cut into calls (SpecClock: wall is the sum of the deltas fed while
\* unpaused, every tick advances frame, and the step is the initial
\* fixed_delta_time).
C2_TickDeterminism == frame * InitialFixedDelta = wall

\* --------------------------------------------------- claims of SpecReplay
RECURSIVE Expand(_)
\* the run-length expansion of a log: the events of each tick
Expand(log) ==
    IF log = <<>> THEN <<>>
    ELSE [i \in 1..Head(log).frames |-> Head(log).inputs] \o Expand(Tail(log))

AllFramesPositive(log) == \A i \in DOMAIN log : log[i].frames >= 1

RECURSIVE TickEvents(_)
\* the events the subject was handed in each of its ticks
TickEvents(g) ==
    IF TickCount(g) = 0 THEN <<>>
    ELSE LET p == TickPrefix(g, TickCount(g) - 1)
         IN  Append(TickEvents(p), HandledEvents(Suffix(g, p)))

ReplayExhausted == replay # None /\ replay[1].input >= Len(replay[1].inputs)

\* a fixed_update call that attempts at least one tick
IsTickAttempt ==
    /\ Unpaused
    /\ F64Le(F64FromInt(fixed_delta_time),
             F64Add(acc_delta_time, F64Times(fixed_delta_time, time_scale)))
    /\ IsFixedUpdate

\* C3 (replay expansion and exhaustion): while a log whose entries all last at
\* least one frame is replayed, the subject has been handed, tick by tick,
\* exactly the events of the log's run-length expansion, in log order; the
\* replay is exhausted exactly when sum(frames) ticks have run; and a tick
\* attempted on the exhausted replay sets paused and calls the subject not at
\* all, leaving frame and the pressed sets as they were.
C3_ReplayExpansion ==
    [][ /\ (replay' # None /\ AllFramesPositive(replay'[1].inputs)) =>
             LET ex == Expand(replay'[1].inputs)
             IN  /\ replay'[1].frame = frame'
                 /\ frame' <= Len(ex)
                 /\ TickEvents(game') = SubSeq(ex, 1, frame')
                 /\ ReplayExhausted' <=> frame' = Len(ex)
        /\ (ReplayExhausted /\ AllFramesPositive(replay[1].inputs) /\ IsTickAttempt) =>
             /\ paused'
             /\ game' = game
             /\ frame' = frame
             /\ pressed_keys' = pressed_keys
             /\ pressed_buttons' = pressed_buttons
      ]_vars

\* the example: A-down at tick 0, A-up at tick 1, B-down at tick 2, then paused
C3_Witness ==
    /\ ReplayExhausted /\ paused
    /\ frame = 3
    /\ TickEvents(game) =
           << <<KeyDown("A")>>, <<KeyUp("A")>>, <<KeyDown("B")>> >>
    /\ pressed_keys = {"B"}

\* ---------------------------------------------------- claims of SpecStore

\* C5 (out-of-range load is a no-op): load_state with an index that is not in
\* the store changes nothing, the replay cursor included.
C5_OutOfRangeLoadNoOp ==
    [][ \A i \in StoreIndices :
          (i >= Len(saved_states) /\ Step(load_state(Self, i))) => UNCHANGED vars
      ]_vars

\* C6 (out-of-range delete is tolerated): saved_states.remove(index) with an
\* index that is not in the store neither aborts nor changes anything.
C6_OutOfRangeDeleteTolerated ==
    [][ \A i \in StoreIndices :
          (i >= Len(saved_states) /\ Step(delete_state(Self, i))) =>
              ~aborted' /\ UNCHANGED vars
      ]_vars

\* C19 (exhausted replay is absorbing): once the cursor is at the end of the
\* log the replay stays installed until a load_state or a successful load_run;
\* until then every tick attempt sets paused and neither calls the subject nor
\* advances frame, and LAlt+P changes neither the replay, the subject nor frame.
C19_ExhaustedReplayAbsorbing ==
    [][ ReplayExhausted =>
          /\ \/ replay' = replay
             \/ \E i \in StoreIndices : Step(load_state(Self, i))
             \/ /\ auto_paused /\ saved_states # <<>>
                /\ Step(handle_event(Self, KeyDown("L"), TRUE))
             \/ run_file # None /\ Step(ui_start_replay(Self, TRUE))
          /\ IsTickAttempt =>
                /\ paused'
                /\ replay' = replay /\ game' = game /\ frame' = frame
                /\ inputs' = inputs
          /\ (auto_paused /\ Step(handle_event(Self, KeyDown("P"), TRUE))) =>
                /\ paused' = ~paused
                /\ replay' = replay /\ game' = game /\ frame' = frame
      ]_vars

\* the replay of the three ticks of tas.json has ended and a tick attempt
\* has paused the controller, with a checkpoint in the store
C19_Witness ==
    /\ ReplayExhausted /\ paused /\ ~auto_paused
    /\ replay[1].frame = 3 /\ frame = 3
    /\ TickCount(game) = 3
    /\ saved_states # <<>>

\* ---------------------------------------------------- claims of SpecScale

\* C11 (pause freezes the clock): a fixed_update call made while paused or
\* auto_paused is set runs no tick and leaves acc_delta_time, frame, the input
\* log, queued_inputs, the pressed sets, the replay cursor and the subject as
\* they were; of the controller's fields only fixed_delta_time can change.
C11_PauseFreezesClock ==
    [][ \A d \in ScaleDeltas :
          ((paused \/ auto_paused) /\ Step(fixed_update(Self, d))) =>
              /\ fixed_delta_time' = d
              /\ UNCHANGED <<game, time_scale, paused, auto_paused, saved_states,
                             frame, inputs, replay, initial_state,
                             acc_delta_time, queued_inputs, pressed_keys,
                             pressed_buttons, window_keys, window_buttons,
                             run_file, states_file, aborted, error_log>>
      ]_vars

\* a replay at half speed was paused between two ticks, with half a step in the
\* accumulator, and fixed_update was then called with a delta of 2 (every
\* unpaused call had a delta of 1)
C11_Witness ==
    /\ paused
    /\ replay # None /\ replay[1].frame >= 1 /\ pressed_keys # {}
    /\ acc_delta_time = F64Half
    /\ wall = calls /\ calls >= 1
    /\ fixed_delta_time = 2 * InitialFixedDelta

\* the whole part of n * s
FloorTimes(n, s) == ExactTimes(n, s)[1] \div (2 ^ (UnitBits - LimbBits))

\* C16 (time-scaled tick count): recording from the fresh controller with a
\* constant time_scale s and a host delta of one fixed step, after n unpaused
\* fixed_update calls exactly floor(n * s) ticks have run, and the accumulator
\* is at least 0 and less than the delta; with s = 0 no tick runs.
C16_ScaledTickCount ==
    live_only =>
        /\ frame = FloorTimes(calls, time_scale)
        /\ F64Lt(acc_delta_time, F64FromInt(InitialFixedDelta))

\* ------------------------------------------------------- claims of SpecIo

\* a call of load_run from the Start replay button that returns Err
IsFailedLoad(ok) == ~load_run(Self, ok)[1] /\ Step(ui_start_replay(Self, ok))

\* C12 (failed run load is atomic): when load_run fails, because tas.json is
\* missing or cannot be read or parsed, it returns an error (which the button
\* logs) and the subject, frame, queued_inputs, the input log, the pressed sets,
\* the paused flag and the replay cursor are as they were before the call.
C12_FailedLoadAtomic ==
    [][ \A ok \in IoAny :
          IsFailedLoad(ok) =>
              /\ error_log' = Append(error_log, "Failed to load run")
              /\ UNCHANGED <<game, frame, queued_inputs, inputs, pressed_keys,
                             pressed_buttons, paused, replay>>
      ]_vars

\* the last message logged is that of a failed load, and a replay is between
\* two of its ticks with a key held
C12_Witness ==
    /\ error_log # <<>>
    /\ error_log[Len(error_log)] = "Failed to load run"
    /\ replay # None
    /\ replay[1].frame >= 1 /\ replay[1].input < Len(replay[1].inputs)
    /\ pressed_keys # {}
    /\ ~paused

\* C13 (run-file I/O failure never aborts): whichever call site saves or loads
\* the run (the Save run and Start replay buttons, LAlt+S), a failure of the
\* file I/O leaves the controller running: no reachable state is a panic.
C13_IoFailureNeverAborts == ~aborted

\* --------------------------------------------------- claims of SpecDelete

\* C14 (delete is in-memory only and order-preserving): deleting a valid index
\* i leaves the checkpoints before i followed by those after i, in the order
\* they had, and does not touch savedstates.json; the file changes only in a
\* save_state, which appends a checkpoint and writes the list as it then is.
C14_DeleteInMemoryOnly ==
    [][ /\ \A i \in 0..(Len(saved_states) - 1) :
             StoreStep(ui_delete_state(Self, i)) =>
                 /\ saved_states' = SubSeq(saved_states, 1, i)
                                       \o SubSeq(saved_states, i + 2,
                                                 Len(saved_states))
                 /\ states_file' = states_file
                 /\ ~aborted'
        /\ states_file' # states_file =>
             /\ Len(saved_states') = Len(saved_states) + 1
             /\ SubSeq(saved_states', 1, Len(saved_states)) = saved_states
             /\ states_file' = Some(saved_states')
      ]_vars

\* the second of three different checkpoints was deleted: the list holds the
\* first and the third, the file still all three
C14_Witness ==
    /\ states_file # None
    /\ Len(states_file[1]) = 3
    /\ states_file[1][1] # states_file[1][2]
    /\ states_file[1][2] # states_file[1][3]
    /\ states_file[1][1] # states_file[1][3]
    /\ saved_states = <<states_file[1][1], states_file[1][3]>>

\* ----------------------------------------------------- claims of SpecLive

====
